---- MODULE Spec2Model ----
(***************************************************************************)
(* bin2ics: scrape a council "where I live" page for bin collection dates  *)
(* (_scrape), turn the records into calendar events (_build_calendar) and  *)
(* write the calendar file (main).                                         *)
(*                                                                         *)
(* Representation.                                                         *)
(*  - A Python str is a sequence of one-character strings.                 *)
(*  - A date is the tuple <<year, month, day>>; None is <<>>.              *)
(*  - The text of a u-mb-2 block or of a list item is abstracted to what   *)
(*    the code reads from it: whether it contains "Next collection" and    *)
(*    the substrings DATE_RE matches in it, in order of occurrence.  A     *)
(*    DATE_RE match is [dow, day, month, year]: the leading word, the      *)
(*    day digits, the month word and the four year digits.                 *)
(*  - The parsed page is the sequence of its class-bearing elements in     *)
(*    document order.  parent = 0 is the document itself, parent = k > 0   *)
(*    a wrapper <div> that is a child of the document.                     *)
(***************************************************************************)
EXTENDS Integers, Sequences, FiniteSets, TLC

VARIABLES
    pc,          \* position in main(): start, fetch, scan, build, write, done, exit, raised
    flagUrl,     \* ns.url (<<>> when the flag is absent)
    envUrl,      \* os.getenv("BINCOLL_URL") (<<>> when unset)
    url,         \* main's local url
    server,      \* the page the server would send
    outcome,     \* what the last requests.get did: none, ok, http_error, timeout
    fetches,     \* number of requests.get calls made
    soup,        \* the parsed page
    nsec,        \* number of div.colldates already handled by the for loop
    collections, \* the list collections of _scrape
    log,         \* history: the append site of each element of collections
    scraped,     \* _scrape has returned
    out,         \* the list _scrape returned (events in main)
    prev,        \* history: what an earlier run of _scrape on the same page returned
    runs,        \* history: number of completed runs of _scrape
    hasAlarm,    \* DisplayAlarm is not None (the import at line 19 worked)
    built,       \* number of records handled by the loop of _build_calendar
    cal,         \* cal.events, a set
    written,     \* out_path.write_text was called
    file         \* the events in the order cal.serialize() emitted them

vars == <<pc, flagUrl, envUrl, url, server, outcome, fetches, soup, nsec,
          collections, log, scraped, out, prev, runs, hasAlarm, built, cal,
          written, file>>

----------------------------------------------------------------------------
(* Bounds of the model *)

MaxSections == 2
MaxItems == 3
MaxBlocks == 2
MaxHeads == 2
MaxRecords == 2

----------------------------------------------------------------------------
(* Strings *)

None == <<>>

WS == {" ", "\n", "\t"}

RECURSIVE LStrip(_)
LStrip(s) ==
    IF s = <<>> THEN s
    ELSE IF Head(s) \in WS THEN LStrip(Tail(s)) ELSE s

RECURSIVE RStrip(_)
RStrip(s) ==
    IF s = <<>> THEN s
    ELSE IF s[Len(s)] \in WS THEN RStrip(SubSeq(s, 1, Len(s) - 1)) ELSE s

\* str.strip()
Strip(s) == RStrip(LStrip(s))

RECURSIVE Concat(_)
Concat(ss) == IF ss = <<>> THEN <<>> ELSE Head(ss) \o Concat(Tail(ss))

\* Tag.get_text(strip=True): every text node stripped, the empty ones
\* dropped, the rest joined with the separator "".
RECURSIVE GetTextStrip(_)
GetTextStrip(strings) ==
    IF strings = <<>> THEN <<>>
    ELSE Strip(Head(strings)) \o GetTextStrip(Tail(strings))

UpperCase == <<"B", "G", "H", "M", "R", "T", "W">>
LowerCase == <<"b", "g", "h", "m", "r", "t", "w">>

LowerChar(c) ==
    IF \E k \in DOMAIN UpperCase : UpperCase[k] = c
    THEN LowerCase[CHOOSE k \in DOMAIN UpperCase : UpperCase[k] = c]
    ELSE c

UpperChar(c) ==
    IF \E k \in DOMAIN LowerCase : LowerCase[k] = c
    THEN UpperCase[CHOOSE k \in DOMAIN LowerCase : LowerCase[k] = c]
    ELSE c

\* str.lower()
Lower(s) == [k \in DOMAIN s |-> LowerChar(s[k])]

\* str.capitalize(): first character upper case, the rest lower case
Capitalize(s) ==
    [k \in DOMAIN s |-> IF k = 1 THEN UpperChar(s[k]) ELSE LowerChar(s[k])]

HOUSEHOLD_WASTE ==
    <<"H", "o", "u", "s", "e", "h", "o", "l", "d", " ", "w", "a", "s", "t", "e">>
MIXED_RECYCLING ==
    <<"M", "i", "x", "e", "d", " ", "r", "e", "c", "y", "c", "l", "i", "n", "g">>
GARDEN_WASTE_RECYCLING ==
    <<"G", "a", "r", "d", "e", "n", " ", "w", "a", "s", "t", "e", " ",
      "r", "e", "c", "y", "c", "l", "i", "n", "g">>
TEXTILE_RECYCLING ==
    <<"T", "e", "x", "t", "i", "l", "e", " ", "r", "e", "c", "y", "c", "l", "i", "n", "g">>
BIN == <<"B", "i", "n">>
KERBSIDE == <<"K", "e", "r", "b", "s", "i", "d", "e">>

\* The emoji of the table, by code point.
WASTEBASKET == <<"U+1F5D1", "U+FE0F">>
RECYCLE == <<"U+267B", "U+FE0F">>
HERB == <<"U+1F33F">>

\* EMOJI.get(bin_type, '')
EMOJI(bin_type) ==
    CASE bin_type = HOUSEHOLD_WASTE -> WASTEBASKET
      [] bin_type = MIXED_RECYCLING -> RECYCLE
      [] bin_type = GARDEN_WASTE_RECYCLING -> HERB
      [] OTHER -> <<>>

\* SHORT.get(bin_type, bin_type)
SHORT(bin_type) ==
    CASE bin_type = HOUSEHOLD_WASTE ->
            <<"H", "o", "u", "s", "e", "h", "o", "l", "d", " ", "W", "a", "s", "t", "e">>
      [] bin_type = MIXED_RECYCLING ->
            <<"R", "e", "c", "y", "c", "l", "i", "n", "g">>
      [] bin_type = GARDEN_WASTE_RECYCLING ->
            <<"G", "a", "r", "d", "e", "n">>
      [] OTHER -> bin_type

----------------------------------------------------------------------------
(* Dates *)

Weekdays == {"Monday", "Tuesday", "Wednesday", "Thursday", "Friday",
             "Saturday", "Sunday"}

MonthNames == <<"January", "February", "March", "April", "May", "June", "July",
                "August", "September", "October", "November", "December">>

IsLeap(y) == y % 4 = 0 /\ (y % 100 # 0 \/ y % 400 = 0)

DaysIn(y, m) ==
    IF m = 2 THEN (IF IsLeap(y) THEN 29 ELSE 28)
    ELSE IF m \in {4, 6, 9, 11} THEN 30 ELSE 31

\* dtparse.parse(m.group(0), dayfirst=False).date() inside the try of
\* _extract_date: the date, or None when the parser raises ValueError (a word
\* that is no weekday or no month name, a day the month does not have, year 0).
ParseDate(t) ==
    IF /\ t.dow \in Weekdays
       /\ \E m \in DOMAIN MonthNames : MonthNames[m] = t.month
       /\ t.year >= 1
    THEN LET m == CHOOSE k \in DOMAIN MonthNames : MonthNames[k] = t.month
         IN  IF t.day >= 1 /\ t.day <= DaysIn(t.year, m)
             THEN <<t.year, m, t.day>>
             ELSE None
    ELSE None

\* _extract_date(text): DATE_RE.search takes the first match only.
ExtractDate(matches) ==
    IF matches = <<>> THEN None ELSE ParseDate(Head(matches))

\* date.__le__
DateLE(a, b) ==
    \/ a[1] < b[1]
    \/ a[1] = b[1] /\ a[2] < b[2]
    \/ a[1] = b[1] /\ a[2] = b[2] /\ a[3] <= b[3]

----------------------------------------------------------------------------
(* The parsed page *)

NoText == [marker |-> FALSE, matches |-> <<>>]

\* <div class="u-mb-4">: strings are its text nodes in document order
Heading(p, strings) ==
    [cls |-> "u-mb-4", parent |-> p, strings |-> strings, text |-> NoText,
     items |-> <<>>]

\* <div class="u-mb-2">
Block(p, text) ==
    [cls |-> "u-mb-2", parent |-> p, strings |-> <<>>, text |-> text,
     items |-> <<>>]

\* <div class="colldates"><ul><li>..</li>..</ul></div>: items are the
\* DATE_RE matches of each li
Section(p, items) ==
    [cls |-> "colldates", parent |-> p, strings |-> <<>>, text |-> NoText,
     items |-> items]

\* The indices of the elements of class cls among page[k..], in document order
RECURSIVE SelectFrom(_, _, _)
SelectFrom(page, cls, k) ==
    IF k > Len(page) THEN <<>>
    ELSE IF page[k].cls = cls
         THEN <<k>> \o SelectFrom(page, cls, k + 1)
         ELSE SelectFrom(page, cls, k + 1)

\* soup.select("div.colldates")
Sections(page) == SelectFrom(page, "colldates", 1)

\* colldiv.find_previous("div", class_="u-mb-4") for the element at index n:
\* the index of the closest heading before it in document order, 0 for None
FindPrevious(page, n) ==
    LET before == {j \in 1..(n - 1) : page[j].cls = "u-mb-4"}
    IN  IF before = {} THEN 0
        ELSE CHOOSE j \in before : \A h \in before : h <= j

\* heading_tag.get_text(strip=True) if heading_tag else "Bin"
BinTypeOf(page, n) ==
    LET heading_tag == FindPrevious(page, n)
    IN  IF heading_tag = 0 THEN BIN
        ELSE GetTextStrip(page[heading_tag].strings)

\* container.find_all("div", class_="u-mb-2") for container = colldiv.parent:
\* every u-mb-2 descendant of the container, in document order.  The document
\* (0) holds every element, a wrapper div its own children.
RECURSIVE FindAllFrom(_, _, _)
FindAllFrom(page, container, k) ==
    IF k > Len(page) THEN <<>>
    ELSE IF /\ page[k].cls = "u-mb-2"
            /\ (container = 0 \/ page[k].parent = container)
         THEN <<k>> \o FindAllFrom(page, container, k + 1)
         ELSE FindAllFrom(page, container, k + 1)

FindAll(page, container) == FindAllFrom(page, container, 1)

\* Variant of ScanBlocksFrom: the break sits inside "if d:", so the scan goes
\* on past a marker block that gave no date.
RECURSIVE ScanBlocksUntilDate(_, _, _)
ScanBlocksUntilDate(page, divs, k) ==
    IF k > Len(divs) THEN <<>>
    ELSE LET d == ExtractDate(page[divs[k]].text.matches)
         IN  IF page[divs[k]].text.marker /\ d # None
             THEN <<[date |-> d, kind |-> "next", at |-> divs[k]]>>
             ELSE ScanBlocksUntilDate(page, divs, k + 1)

\* The loop of lines 70-77 from the k-th div on: what it appends.  The break
\* is taken at the first div holding the marker, whether or not a date came
\* out of it.
RECURSIVE ScanBlocksFrom(_, _, _)
ScanBlocksFrom(page, divs, k) ==
    IF k > Len(divs) THEN <<>>
    ELSE IF page[divs[k]].text.marker
         THEN LET d == ExtractDate(page[divs[k]].text.matches)
              IN  IF d # None
                  THEN <<[date |-> d, kind |-> "next", at |-> divs[k]]>>
                  ELSE <<>>
         ELSE ScanBlocksFrom(page, divs, k + 1)

\* Lines 68-77 for the section at index n
NextCollection(page, n) ==
    ScanBlocksFrom(page, FindAll(page, page[n].parent), 1)

\* Variant of ScanItemsFrom: the loop ends at the first li without a date.
RECURSIVE ScanItemsStopAtBad(_, _, _)
ScanItemsStopAtBad(page, n, k) ==
    IF k > Len(page[n].items) THEN <<>>
    ELSE LET d == ExtractDate(page[n].items[k])
         IN  IF d # None
             THEN <<[date |-> d, kind |-> "li", at |-> k]>>
                  \o ScanItemsStopAtBad(page, n, k + 1)
             ELSE <<>>

\* The loop of lines 80-83 from the k-th li on: what it appends
RECURSIVE ScanItemsFrom(_, _, _)
ScanItemsFrom(page, n, k) ==
    IF k > Len(page[n].items) THEN <<>>
    ELSE LET d == ExtractDate(page[n].items[k])
         IN  (IF d # None
              THEN <<[date |-> d, kind |-> "li", at |-> k]>>
              ELSE <<>>) \o ScanItemsFrom(page, n, k + 1)

FutureList(page, n) == ScanItemsFrom(page, n, 1)

\* What one pass of the body of the for loop (lines 63-83) appends for the
\* section at index n
SectionFinds(page, n) == NextCollection(page, n) \o FutureList(page, n)

----------------------------------------------------------------------------
(* Deduplication and sort, lines 85-86 *)

\* {(b, d) for b, d in collections}
Unique(c) == {c[k] : k \in DOMAIN c}

\* The orders in which iterating a set can yield its elements.  The elements
\* are tuples holding a str, whose hash is salted per process.
RECURSIVE IterationOrders(_)
IterationOrders(S) ==
    IF S = {} THEN {<<>>}
    ELSE UNION {{<<x>> \o p : p \in IterationOrders(S \ {x})} : x \in S}

\* One step of the stable sort: x goes behind every element whose date is <=
RECURSIVE InsertByDate(_, _)
InsertByDate(t, x) ==
    IF t = <<>> THEN <<x>>
    ELSE IF DateLE(t[Len(t)][2], x[2]) THEN Append(t, x)
         ELSE Append(InsertByDate(SubSeq(t, 1, Len(t) - 1), x), t[Len(t)])

\* Variant of SortedByDate: the list is returned as iterated, unsorted.
Unsorted(s) == s

\* sorted(seq, key=lambda bd: bd[1]): stable, ascending by date
RECURSIVE SortedByDate(_)
SortedByDate(s) ==
    IF s = <<>> THEN <<>>
    ELSE InsertByDate(SortedByDate(SubSeq(s, 1, Len(s) - 1)), s[Len(s)])

\* Variant of ScrapeOutputs: the list is sorted without the set in between.
ScrapeOutputsNoDedup(c) == {SortedByDate(c)}

\* What lines 85-86 can return for the accumulated list c
ScrapeOutputs(c) == {SortedByDate(o) : o \in IterationOrders(Unique(c))}

----------------------------------------------------------------------------
(* The event of one record, lines 92-103 *)

PUT_OUT_THE == <<"P", "u", "t", " ", "o", "u", "t", " ", "t", "h", "e", " ">>
BIN_DOT == <<" ", "b", "i", "n", ".">>

\* Variant of Title: the .strip() is missing.
TitleNoStrip(bin_type) == EMOJI(bin_type) \o <<" ">> \o SHORT(bin_type)

\* f"{EMOJI.get(bin_type, '')} {SHORT.get(bin_type, bin_type)}".strip()
Title(bin_type) == Strip(EMOJI(bin_type) \o <<" ">> \o SHORT(bin_type))

\* f"Put out the {bin_type.lower()} bin.".capitalize()
Description(bin_type) == Capitalize(PUT_OUT_THE \o Lower(bin_type) \o BIN_DOT)

\* _dt.datetime.combine(date, _dt.time.min).astimezone(): local midnight
Combine(date) == [date |-> date, hour |-> 0, minute |-> 0, tz |-> "local"]

\* ev.make_all_day(): the begin floored to its day
MakeAllDay(begin) == [begin EXCEPT !.hour = 0, !.minute = 0]

\* Variant of NewEvent: the categories hold the title, not the bin type.
NewEventTitleCategory(bin_type, date, uid, alarm) ==
    LET name == Strip(EMOJI(bin_type) \o <<" ">> \o SHORT(bin_type))
    IN  [uid |-> uid,
         name |-> name,
         begin |-> [date |-> date, hour |-> 0, minute |-> 0, tz |-> "local"],
         all_day |-> TRUE,
         description |-> name,
         location |-> KERBSIDE,
         categories |-> {name},
         alarms |-> <<>>]

\* The Event built for (bin_type, date).  uid is the Event's fresh uid (a
\* uuid4 in the library), modelled by the number of the loop pass; alarm says
\* whether DisplayAlarm is available.
NewEvent(bin_type, date, uid, alarm) ==
    LET name == Title(bin_type)
    IN  [uid |-> uid,
         name |-> name,
         begin |-> MakeAllDay(Combine(date)),
         all_day |-> TRUE,
         description |-> Description(bin_type),
         location |-> KERBSIDE,
         categories |-> {bin_type},
         alarms |-> IF alarm
                    THEN <<[trigger_hours |-> -12, display_summary |-> name]>>
                    ELSE <<>>]

\* The all-day date of an event
EventDate(ev) == ev.begin.date

----------------------------------------------------------------------------
(* Actions *)

\* main, lines 113-116: url = ns.url or os.getenv("BINCOLL_URL"); exit when
\* there is none.
Start ==
    /\ pc = "start"
    /\ LET u == IF flagUrl # <<>> THEN flagUrl ELSE envUrl
       IN  /\ url' = u
           /\ \/ /\ u = <<>>
                 /\ pc' = "exit"
              \/ /\ u # <<>>
                 /\ pc' = "fetch"
    /\ UNCHANGED <<flagUrl, envUrl, server, outcome, fetches, soup, nsec,
                   collections, log, scraped, out, prev, runs, hasAlarm, built,
                   cal, written, file>>

\* Variant of Fetch: r.raise_for_status() is missing, so the body of an error
\* response is parsed like a page.
FetchNoRaise ==
    /\ pc = "fetch"
    /\ fetches' = fetches + 1
    /\ \/ /\ outcome' \in {"ok", "http_error"}
          /\ soup' = server
          /\ pc' = "scan"
       \/ /\ outcome' = "timeout"
          /\ soup' = soup
          /\ pc' = "raised"
    /\ UNCHANGED <<flagUrl, envUrl, url, server, nsec, collections, log,
                   scraped, out, prev, runs, hasAlarm, built, cal, written, file>>

\* _scrape, lines 57-60: one requests.get; raise_for_status raises on a
\* non-success status, requests.get itself on a timeout; nothing catches
\* either.  On success the page is parsed.
Fetch ==
    /\ pc = "fetch"
    /\ fetches' = fetches + 1
    /\ \/ /\ outcome' = "ok"
          /\ soup' = server
          /\ pc' = "scan"
       \/ /\ outcome' \in {"http_error", "timeout"}
          /\ soup' = soup
          /\ pc' = "raised"
    /\ UNCHANGED <<flagUrl, envUrl, url, server, nsec, collections, log,
                   scraped, out, prev, runs, hasAlarm, built, cal, written, file>>

\* _scrape, one pass of the for loop of lines 63-83
ScanSection ==
    /\ pc = "scan"
    /\ nsec < Len(Sections(soup))
    /\ LET n == Sections(soup)[nsec + 1]
           bin_type == BinTypeOf(soup, n)
           found == SectionFinds(soup, n)
       IN  /\ collections' =
                  collections \o [k \in DOMAIN found |-> <<bin_type, found[k].date>>]
           /\ log' = log \o [k \in DOMAIN found |->
                                [sec |-> n, kind |-> found[k].kind, at |-> found[k].at]]
    /\ nsec' = nsec + 1
    /\ UNCHANGED <<pc, flagUrl, envUrl, url, server, outcome, fetches, soup,
                   scraped, out, prev, runs, hasAlarm, built, cal, written, file>>

\* _scrape, lines 85-86, and the return to main
ReturnSorted ==
    /\ pc = "scan"
    /\ nsec = Len(Sections(soup))
    /\ out' \in ScrapeOutputs(collections)
    /\ scraped' = TRUE
    /\ runs' = runs + 1
    /\ pc' = "build"
    /\ UNCHANGED <<flagUrl, envUrl, url, server, outcome, fetches, soup, nsec,
                   collections, log, prev, hasAlarm, built, cal, written, file>>

\* The extractor is run once more, in a new process, on the same HTML
Rerun ==
    /\ pc = "build"
    /\ runs = 1
    /\ built = 0
    /\ prev' = out
    /\ nsec' = 0
    /\ collections' = <<>>
    /\ log' = <<>>
    /\ scraped' = FALSE
    /\ out' = <<>>
    /\ pc' = "scan"
    /\ UNCHANGED <<flagUrl, envUrl, url, server, outcome, fetches, soup, runs,
                   hasAlarm, built, cal, written, file>>

\* _build_calendar, one pass of the for loop of lines 91-104.  cal.events is
\* a set; two Events are equal when their uids are.
BuildEvent ==
    /\ pc = "build"
    /\ built < Len(out)
    /\ LET bd == out[built + 1]
       IN  cal' = cal \cup {NewEvent(bd[1], bd[2], built + 1, hasAlarm)}
    /\ built' = built + 1
    /\ UNCHANGED <<pc, flagUrl, envUrl, url, server, outcome, fetches, soup,
                   nsec, collections, log, scraped, out, prev, runs, hasAlarm,
                   written, file>>

\* _build_calendar returns, line 105
ReturnCalendar ==
    /\ pc = "build"
    /\ built = Len(out)
    /\ pc' = "write"
    /\ UNCHANGED <<flagUrl, envUrl, url, server, outcome, fetches, soup, nsec,
                   collections, log, scraped, out, prev, runs, hasAlarm, built,
                   cal, written, file>>

\* main, lines 124-125: cal.serialize() walks the set cal.events, and the
\* text is written.
Write ==
    /\ pc = "write"
    /\ file' \in IterationOrders(cal)
    /\ written' = TRUE
    /\ pc' = "done"
    /\ UNCHANGED <<flagUrl, envUrl, url, server, outcome, fetches, soup, nsec,
                   collections, log, scraped, out, prev, runs, hasAlarm, built,
                   cal>>

----------------------------------------------------------------------------
(* Input pages *)

SeqsUpTo(S, n) == UNION {[1..k -> S] : k \in 0..n}

\* Texts DATE_RE matches
FRI_10_JAN == [dow |-> "Friday", day |-> 10, month |-> "January", year |-> 2025]
FRI_7_FEB == [dow |-> "Friday", day |-> 7, month |-> "February", year |-> 2025]
MON_3_MAR == [dow |-> "Monday", day |-> 3, month |-> "March", year |-> 2025]
\* "Monday, 31 February 2025": no such day
MON_31_FEB == [dow |-> "Monday", day |-> 31, month |-> "February", year |-> 2025]
\* "collection 3 March 2025": the leading word is no weekday
NO_DOW == [dow |-> "collection", day |-> 3, month |-> "March", year |-> 2025]

\* "Next collection ..." with these DATE_RE matches
Marked(matches) == [marker |-> TRUE, matches |-> matches]
\* a u-mb-2 block without the marker phrase
Unmarked(matches) == [marker |-> FALSE, matches |-> matches]

\* A page is written as units: a run of headings, a run of u-mb-2 blocks and
\* one div.colldates, all children of one parent.  where = "root": of the
\* document; "own": of a wrapper div of the unit's own; "prev": of the parent
\* of the unit before.
RECURSIVE ParentOf(_, _)
ParentOf(units, k) ==
    CASE units[k].where = "root" -> 0
      [] units[k].where = "own" -> k
      [] OTHER -> IF k = 1 THEN 1 ELSE ParentOf(units, k - 1)

UnitNodes(units, k) ==
    LET p == ParentOf(units, k)
        u == units[k]
    IN  [j \in DOMAIN u.heads |-> Heading(p, u.heads[j])]
        \o [j \in DOMAIN u.blocks |-> Block(p, u.blocks[j])]
        \o <<Section(p, u.items)>>

RECURSIVE PageFrom(_, _)
PageFrom(units, k) ==
    IF k > Len(units) THEN <<>>
    ELSE UnitNodes(units, k) \o PageFrom(units, k + 1)

Page(units) == PageFrom(units, 1)

\* Pages whose records collide on dates and on (bin_type, date)
UnitsOrder ==
    [where : {"own"},
     heads : {<<<<HOUSEHOLD_WASTE>>>>, <<<<MIXED_RECYCLING>>>>},
     blocks : {<<>>, <<Marked(<<FRI_10_JAN>>)>>},
     items : {<<>>, <<<<FRI_10_JAN>>>>, <<<<MON_3_MAR>>>>,
              <<<<MON_3_MAR>>, <<FRI_10_JAN>>>>}]

PagesOrder == {Page(us) : us \in SeqsUpTo(UnitsOrder, MaxSections)}

\* Pages with several u-mb-2 blocks in the section's container
BlockTexts ==
    {Marked(<<>>), Marked(<<MON_31_FEB>>), Marked(<<FRI_10_JAN>>),
     Marked(<<FRI_10_JAN, MON_3_MAR>>), Unmarked(<<MON_3_MAR>>)}

UnitsBlocks ==
    [where : {"root", "own"},
     heads : {<<<<HOUSEHOLD_WASTE>>>>},
     blocks : SeqsUpTo(BlockTexts, MaxBlocks),
     items : {<<>>, <<<<FRI_7_FEB>>>>}]

PagesBlocks == {Page(<<u>>) : u \in UnitsBlocks}

\* Pages with malformed list items, alone or followed by a second section
ItemTexts == {<<>>, <<MON_31_FEB>>, <<NO_DOW>>, <<MON_3_MAR>>}

UnitsItems ==
    [where : {"own"},
     heads : {<<<<HOUSEHOLD_WASTE>>>>},
     blocks : {<<>>, <<Marked(<<>>)>>},
     items : SeqsUpTo(ItemTexts, MaxItems)]

SecondUnit ==
    [where |-> "own", heads |-> <<<<MIXED_RECYCLING>>>>, blocks |-> <<>>,
     items |-> <<<<FRI_10_JAN>>>>]

PagesItems ==
    {Page(<<u>>) : u \in UnitsItems} \cup {Page(<<u, SecondUnit>>) : u \in UnitsItems}

\* Pages with no, one or several headings before a section
HeadingTexts ==
    {<<HOUSEHOLD_WASTE>>,
     <<<<"\n", " ">> \o MIXED_RECYCLING \o <<" ", "\n">>>>,
     <<<<"G", "a", "r", "d", "e", "n", " ", "w", "a", "s", "t", "e">>,
       <<" ", "r", "e", "c", "y", "c", "l", "i", "n", "g">>>>,
     <<<<"\n">>, TEXTILE_RECYCLING, <<"\n">>>>}

UnitsHeads ==
    [where : {"root", "own"},
     heads : SeqsUpTo(HeadingTexts, MaxHeads),
     blocks : {<<>>},
     items : {<<<<FRI_7_FEB>>>>}]

UnitsAfter ==
    [where : {"own", "prev"},
     heads : {<<>>, <<<<HOUSEHOLD_WASTE>>>>, <<<<TEXTILE_RECYCLING>>>>},
     blocks : {<<>>},
     items : {<<<<MON_3_MAR>>>>}]

PagesHeads ==
    {Page(<<u>>) : u \in UnitsHeads}
    \cup {Page(<<u, v>>) : u \in UnitsHeads, v \in UnitsAfter}

\* Pages whose sections share a parent
UnitsShared ==
    [where : {"root", "own", "prev"},
     heads : {<<<<HOUSEHOLD_WASTE>>>>, <<<<MIXED_RECYCLING>>>>},
     blocks : {<<>>, <<Marked(<<FRI_10_JAN>>)>>, <<Marked(<<MON_3_MAR>>)>>},
     items : {<<>>, <<<<FRI_7_FEB>>>>}]

PagesShared == {Page(<<u, v>>) : u \in UnitsShared, v \in UnitsShared}

Pages == PagesOrder \cup PagesBlocks \cup PagesItems \cup PagesHeads \cup PagesShared

\* Records handed to _build_calendar directly
BinTypes ==
    {HOUSEHOLD_WASTE, MIXED_RECYCLING, GARDEN_WASTE_RECYCLING, TEXTILE_RECYCLING,
     BIN, <<" ">> \o TEXTILE_RECYCLING \o <<"\n">>}

Records == {<<b, d>> : b \in BinTypes, d \in {<<2025, 1, 10>>, <<2025, 3, 3>>}}

URL == <<"h", "t", "t", "p", "s", ":", "/", "/", "w">>

----------------------------------------------------------------------------
(* Specifications *)

\* The extractor on a parsed page: the state of _scrape at line 61
InitExtract ==
    /\ pc = "scan"
    /\ flagUrl = URL
    /\ envUrl = <<>>
    /\ url = URL
    /\ server \in Pages
    /\ outcome = "ok"
    /\ fetches = 1
    /\ soup = server
    /\ nsec = 0
    /\ collections = <<>>
    /\ log = <<>>
    /\ scraped = FALSE
    /\ out = <<>>
    /\ prev = <<>>
    /\ runs = 0
    /\ hasAlarm = FALSE
    /\ built = 0
    /\ cal = {}
    /\ written = FALSE
    /\ file = <<>>

NextExtract == ScanSection \/ ReturnSorted \/ Rerun

SpecExtract == InitExtract /\ [][NextExtract]_vars

\* The event mapper on a list of records: the state at line 90
InitBuild ==
    /\ pc = "build"
    /\ flagUrl = URL
    /\ envUrl = <<>>
    /\ url = URL
    /\ server = <<>>
    /\ outcome = "ok"
    /\ fetches = 1
    /\ soup = <<>>
    /\ nsec = 0
    /\ collections = <<>>
    /\ log = <<>>
    /\ scraped = TRUE
    /\ out \in SeqsUpTo(Records, MaxRecords)
    /\ prev = <<>>
    /\ runs = 0
    /\ hasAlarm \in BOOLEAN
    /\ built = 0
    /\ cal = {}
    /\ written = FALSE
    /\ file = <<>>

NextBuild == BuildEvent \/ ReturnCalendar \/ Write

SpecBuild == InitBuild /\ [][NextBuild]_vars

\* The program from the start of main
Init ==
    /\ pc = "start"
    /\ flagUrl \in {<<>>, URL}
    /\ envUrl \in {<<>>, URL}
    /\ url = <<>>
    /\ server \in {Page(us) : us \in SeqsUpTo(UnitsOrder, 1)}
    /\ outcome = "none"
    /\ fetches = 0
    /\ soup = <<>>
    /\ nsec = 0
    /\ collections = <<>>
    /\ log = <<>>
    /\ scraped = FALSE
    /\ out = <<>>
    /\ prev = <<>>
    /\ runs = 0
    /\ hasAlarm \in BOOLEAN
    /\ built = 0
    /\ cal = {}
    /\ written = FALSE
    /\ file = <<>>

Next ==
    \/ Start
    \/ Fetch
    \/ ScanSection
    \/ ReturnSorted
    \/ BuildEvent
    \/ ReturnCalendar
    \/ Write

Spec == Init /\ [][Next]_vars

----------------------------------------------------------------------------
(* Claims about the extractor, checked under SpecExtract *)

Range(q) == {q[k] : k \in DOMAIN q}

\* The DATE_RE matches of the fragment a log entry names
FragmentOf(page, e) ==
    IF e.kind = "next" THEN page[e.at].text.matches ELSE page[e.sec].items[e.at]

\* C1: the list the extractor returns is sorted non-decreasing by date: for
\* all positions a < b, the date at a is <= the date at b.
C1_SortedByDate ==
    scraped => \A a, b \in DOMAIN out : a < b => DateLE(out[a][2], out[b][2])

\* C1 witness: the extractor returned at least two records with different
\* dates that it had accumulated in descending order.
C1_Witness ==
    /\ scraped
    /\ \E k \in DOMAIN collections :
          /\ k + 1 \in DOMAIN collections
          /\ ~DateLE(collections[k][2], collections[k + 1][2])

\* C2: the returned list holds no (bin_type, date) pair twice, and holds
\* every pair that was accumulated.
C2_NoDuplicates ==
    scraped =>
        /\ \A a, b \in DOMAIN out : a # b => out[a] # out[b]
        /\ Range(out) = Range(collections)

\* C2 witness: the same pair was accumulated twice, once from the
\* next-collection block and once from a list item.
C2_Witness ==
    /\ scraped
    /\ \E a, b \in DOMAIN collections :
          /\ collections[a] = collections[b]
          /\ log[a].kind = "next"
          /\ log[b].kind = "li"

\* C4 as claimed: a second run of the extractor on the same page returns the
\* same list as the first, position by position.
C4_Deterministic == (scraped /\ runs = 2) => out = prev

\* C4 amended: a second run on the same page returns the same records, with
\* the same date in every position; only records that share a date may have
\* changed places, so lists without a shared date are identical.
C4_SameUpToTies ==
    (scraped /\ runs = 2) =>
        /\ Len(out) = Len(prev)
        /\ Range(out) = Range(prev)
        /\ \A k \in DOMAIN out : out[k][2] = prev[k][2]
        /\ (\A a, b \in DOMAIN out : a # b => out[a][2] # out[b][2]) => out = prev

\* C4 witness: two runs on the same page returned two records of one date in
\* different orders.
C4_Witness ==
    /\ scraped
    /\ runs = 2
    /\ out # prev

\* C5: a fragment without a date contributes nothing, and stops nothing:
\* every list item with a valid date of every section is in the result under
\* the section's bin type, and every accumulated record carries the date of
\* the fragment it was appended for.
C5_MalformedSkipped ==
    /\ \A a \in DOMAIN log :
          /\ ExtractDate(FragmentOf(soup, log[a])) # None
          /\ collections[a][2] = ExtractDate(FragmentOf(soup, log[a]))
    /\ scraped =>
          \A n \in Range(Sections(soup)) : \A k \in DOMAIN soup[n].items :
              ExtractDate(soup[n].items[k]) # None =>
                  <<BinTypeOf(soup, n), ExtractDate(soup[n].items[k])>> \in Range(out)

\* C5 witness: a section whose list reads malformed, valid, malformed was
\* scanned, and a later section gave a record too.
C5_Witness ==
    /\ scraped
    /\ \E n \in Range(Sections(soup)) :
          /\ Len(soup[n].items) >= 3
          /\ ExtractDate(soup[n].items[1]) = None
          /\ ExtractDate(soup[n].items[2]) # None
          /\ ExtractDate(soup[n].items[3]) = None
          /\ \E a \in DOMAIN log : log[a].sec > n

\* Block j is a u-mb-2 block of the container of section n
InContainer(page, n, j) ==
    /\ page[j].cls = "u-mb-2"
    /\ (page[n].parent = 0 \/ page[j].parent = page[n].parent)

\* Block j is the first block of the container of section n that holds the
\* marker phrase
FirstMarker(page, n, j) ==
    /\ InContainer(page, n, j)
    /\ page[j].text.marker
    /\ \A h \in 1..(j - 1) : InContainer(page, n, h) => ~page[h].text.marker

\* C8: a next-collection record of a section comes from the first block of
\* its container that holds the marker, carries the first date of that
\* block, and is the only one of the section; when that block's first date
\* parses the record is there, and when it does not, the section has no
\* next-collection record, whatever later blocks hold.
C8_SingleMatch ==
    /\ \A a \in DOMAIN log : log[a].kind = "next" =>
          /\ FirstMarker(soup, log[a].sec, log[a].at)
          /\ collections[a][2] = ParseDate(Head(soup[log[a].at].text.matches))
          /\ \A b \in DOMAIN log :
                (log[b].kind = "next" /\ log[b].sec = log[a].sec) => b = a
    /\ \A s \in 1..nsec : \A j \in DOMAIN soup :
          (/\ FirstMarker(soup, Sections(soup)[s], j)
           /\ soup[j].text.matches # <<>>
           /\ ParseDate(Head(soup[j].text.matches)) # None)
          => \E a \in DOMAIN log :
                /\ log[a].kind = "next"
                /\ log[a].sec = Sections(soup)[s]
                /\ log[a].at = j

\* C8 witness: a section was scanned whose first marker block has no date
\* that parses and whose later marker block has one.
C8_Witness ==
    /\ nsec >= 1
    /\ \E j, h \in DOMAIN soup :
          /\ j < h
          /\ FirstMarker(soup, Sections(soup)[1], j)
          /\ ExtractDate(soup[j].text.matches) = None
          /\ InContainer(soup, Sections(soup)[1], h)
          /\ soup[h].text.marker
          /\ ExtractDate(soup[h].text.matches) # None

\* C9: every record of a section carries the whitespace-trimmed text of the
\* nearest heading before the section, or "Bin" when no heading precedes it.
C9_TrimmedNearestHeading ==
    \A a \in DOMAIN log :
        LET n == log[a].sec
            before == {j \in 1..(n - 1) : soup[j].cls = "u-mb-4"}
        IN  IF before = {}
            THEN collections[a][1] = BIN
            ELSE \E j \in before :
                    /\ \A h \in before : h <= j
                    /\ collections[a][1] = Strip(Concat(soup[j].strings))

\* C10: a next-collection record is filed under the bin type of the heading
\* its block stands under, so the date of one section's block never appears
\* under another section's bin type.
C10_NoCrossAttribution ==
    \A a \in DOMAIN log :
        log[a].kind = "next" => collections[a][1] = BinTypeOf(soup, log[a].at)

----------------------------------------------------------------------------
(* Claims about the event mapper, checked under SpecBuild *)

\* The loop of _build_calendar has handled every record
Mapped == pc \in {"write", "done"}

HOUSEHOLD_WASTE_TITLE ==
    <<"U+1F5D1", "U+FE0F", " ",
      "H", "o", "u", "s", "e", "h", "o", "l", "d", " ", "W", "a", "s", "t", "e">>
MIXED_RECYCLING_TITLE ==
    <<"U+267B", "U+FE0F", " ", "R", "e", "c", "y", "c", "l", "i", "n", "g">>
GARDEN_WASTE_RECYCLING_TITLE ==
    <<"U+1F33F", " ", "G", "a", "r", "d", "e", "n">>

\* s neither starts nor ends with whitespace
Trimmed(s) == s = <<>> \/ (s[1] \notin WS /\ s[Len(s)] \notin WS)

\* s is t without its leading and trailing whitespace
IsTrimOf(s, t) ==
    /\ Trimmed(s)
    /\ \E a, b \in 0..Len(t) :
          /\ a + Len(s) + b = Len(t)
          /\ \A k \in 1..Len(t) :
                IF k <= a \/ k > a + Len(s) THEN t[k] \in WS ELSE t[k] = s[k - a]

\* C6: the title of the event of a record is the emoji, a space and the
\* short label for the three known bin types, and the bin type itself
\* without surrounding whitespace for any other.
C6_Title ==
    \A ev \in cal :
        LET bin_type == out[ev.uid][1]
        IN  CASE bin_type = HOUSEHOLD_WASTE -> ev.name = HOUSEHOLD_WASTE_TITLE
              [] bin_type = MIXED_RECYCLING -> ev.name = MIXED_RECYCLING_TITLE
              [] bin_type = GARDEN_WASTE_RECYCLING ->
                    ev.name = GARDEN_WASTE_RECYCLING_TITLE
              [] OTHER -> IsTrimOf(ev.name, bin_type)

\* C6 witness: events were made for a known bin type and for an unknown one
\* with whitespace around it.
C6_Witness ==
    /\ \E ev \in cal : out[ev.uid][1] = GARDEN_WASTE_RECYCLING
    /\ \E ev \in cal :
          /\ out[ev.uid][1] \notin
                {HOUSEHOLD_WASTE, MIXED_RECYCLING, GARDEN_WASTE_RECYCLING}
          /\ ~Trimmed(out[ev.uid][1])

----------------------------------------------------------------------------
(* Claims about main, checked under Spec *)

\* C7: without a URL the process exits before any fetch, extraction, mapping
\* or write; a failed fetch is not retried and nothing is extracted, mapped
\* or written after it; the file is written only after a successful fetch,
\* the extraction and the mapping of every record, in that order.
C7_FatalErrorsStop ==
    /\ fetches <= 1
    /\ (flagUrl = <<>> /\ envUrl = <<>>) =>
          /\ pc \in {"start", "exit"}
          /\ fetches = 0 /\ nsec = 0 /\ ~scraped /\ built = 0 /\ ~written
    /\ pc = "exit" =>
          /\ flagUrl = <<>> /\ envUrl = <<>>
          /\ fetches = 0 /\ ~scraped /\ cal = {} /\ ~written
    /\ outcome \in {"http_error", "timeout"} =>
          /\ pc = "raised"
          /\ collections = <<>> /\ nsec = 0 /\ ~scraped
          /\ built = 0 /\ cal = {} /\ ~written
    /\ pc = "raised" => outcome \in {"http_error", "timeout"}
    /\ (nsec > 0 \/ scraped) => (outcome = "ok" /\ fetches = 1)
    /\ (built > 0 \/ Mapped) => (scraped /\ nsec = Len(Sections(soup)))
    /\ written => (pc = "done" /\ scraped /\ built = Len(out))

\* C7 witness: the fetch failed on a non-success status and main ended with
\* the exception.
C7_Witness ==
    /\ pc = "raised"
    /\ outcome = "http_error"
    /\ fetches = 1

====
